---- MODULE Spec2Model ----
(***************************************************************************)
(* The reminder session of screens/ReminderScreen.tsx as a state machine,  *)
(* and after it the App shell with the course catalog of CoursesScreen.    *)
(*                                                                         *)
(* The variables are the component's props and useState cells, the async   *)
(* handler invocations that are suspended at an await (each with the       *)
(* values its closure captured at the press), and the Reward Ledger.       *)
(* A user event is one action; it first evaluates the render condition of  *)
(* the control it presses (a control that is not rendered, or is disabled, *)
(* does nothing) and then runs the handler up to its first await.  The     *)
(* return of an awaited ledger call is one action that runs the handler's  *)
(* continuation up to its next await.                                      *)
(***************************************************************************)
EXTENDS Integers, Sequences, FiniteSets

(* ---------------- bounds of the model ---------------- *)
\* resolved subject lists have 0..MaxSubjects subjects
MaxSubjects == 2
\* a fetched reminder has 0..MaxTasks tasks
MaxTasks == 3
\* answer options per task
NumOptions == 2
\* answers submitted on a mounted screen
MaxAnswers == 3
\* handleNext / claim invocations suspended at once
MaxPending == 2
\* the call counters stop counting here ("2 or more")
CallCap == 2
\* the lessons prop has 0..MaxLessons lessons
MaxLessons == 4
\* the selectedSubjects prop has 0..MaxSelected subjects
MaxSelected == 2
\* runs of the session effect per mounted screen
MaxSessions == 2
\* answers submitted on the screen of a single subject
MaxAnswersOneSubject == 4
\* CoursesScreen invocations suspended at once
MaxShopPending == 3

(* ---------------- program constants ---------------- *)
CorrectCoins == 10
IncorrectCoins == 5
PerfectScoreBonus == 20
PerfectScoreTasks == 3
CompletionBonus == 100

\* selectedAnswer === null
NoAnswer == -1
\* reminders.get(subject) === undefined
NoReminder == -1
\* the empty subject string of a lesson, dropped by .filter(s => s)
EmptySubject == -2

\* the courses of the catalog
Courses == {"math", "physics"}
\* roadmapCourse === null, loadingCourse === null
NoCourse == "null"
\* the values of currentScreen
Screens == {"daily", "courses", "roadmap", "profile"}

SubjectIdx == 0 .. (MaxSubjects - 1)
\* subject names
Subjects == 0 .. MaxSubjects
Pages == {"theory1", "theory2", "task", "explanation", "completion"}

VARIABLES
  numSubjects,            \* subjectsToDisplay.length (props, resolved)
  lessons,                \* the lessons prop: the subject of every lesson, in order
  selectedSubjects,       \* the selectedSubjects prop
  username,               \* TRUE iff the username prop is a non-empty string
  mounted,                \* FALSE once onClose has unmounted the screen
  currentSubjectIndex, currentTaskIndex, selectedAnswer, currentPage,
  reminders,              \* subject index -> number of tasks, or NoReminder
  isLoading, error,
  sessions,               \* runs of the session effect so far
  fetching,               \* subject lists of the fetches in flight, in call order
  fetchedFor,             \* the subject list passed to the latest fetch
  totalCoinsEarned, correctAnswers, totalQuestions,
  subjectCorrectAnswers, subjectTotalQuestions,
  awardedQuestions, awardedBonuses,
  canClaimCompletionBonus, hasClaimedBonus,
  pending,                \* suspended handler invocations, in call order
  questionCalls,          \* question key -> addCoins calls issued for it
  bonusCalls,             \* subject -> addCoins(username, 20) calls issued
  markCalls,              \* subject -> markSubjectCompleted calls issued
  explanationVisits,      \* subject -> times the page became explanation
  submitted,              \* answers submitted on the mounted screen
  wrongSubmitted,         \* subjects an incorrect answer was submitted for
  correctKeys,            \* question keys whose award was for a correct answer
  bonusReturned,          \* addCoins(username, 20) calls that returned to the screen
  ledgerCompleted,        \* subjects marked completed today in the ledger
  ledgerClaimed,          \* today's completion bonus is claimed in the ledger
  claimSuccesses,         \* claim results the screen accepted (+100 credited)
  awardFailed,            \* an addCoins call for an answer was rejected
  appIsLoading,           \* isLoading of App
  isAuthenticated, showReminder, showProfile,
  roadmapCourse,          \* a course, or NoCourse
  currentScreen,
  appPending,             \* the App handlers suspended at an await
  enoughCoins,            \* userStats.coins >= COURSE_PRICE
  loadingCourse,          \* CoursesScreen: a course, or NoCourse
  purchasedCourses,       \* CoursesScreen: the purchased course ids
  shopPending             \* suspended CoursesScreen invocations, in call order

nav == <<currentSubjectIndex, currentTaskIndex, selectedAnswer, currentPage>>
props == <<numSubjects, lessons, selectedSubjects, username>>
fetch == <<sessions, fetching, fetchedFor>>
load == <<reminders, isLoading, error, fetch>>
counters == <<correctAnswers, totalQuestions, subjectCorrectAnswers, subjectTotalQuestions>>
awarded == <<awardedQuestions, awardedBonuses>>
claim == <<canClaimCompletionBonus, hasClaimedBonus>>
calls == <<questionCalls, bonusCalls>>
observed == <<markCalls, explanationVisits, submitted, wrongSubmitted>>
paid == <<correctKeys, bonusReturned>>
ledger == <<ledgerCompleted, ledgerClaimed, claimSuccesses, awardFailed>>
screen == <<props, mounted, nav, load, totalCoinsEarned, counters, awarded, claim,
            pending, calls, observed, paid, ledger>>
app == <<appIsLoading, isAuthenticated, showReminder, showProfile, roadmapCourse,
         currentScreen, appPending, enoughCoins>>
shop == <<loadingCourse, purchasedCourses, shopPending>>
shell == <<app, shop>>
vars == <<screen, shell>>

(* ---------------- subject-set resolution ---------------- *)
\* list.includes(s)
Includes(list, s) == \E i \in DOMAIN list : list[i] = s

\* Array.from(new Set(list)): the distinct elements, in first-occurrence order
RECURSIVE Distinct(_)
Distinct(list) ==
  IF list = <<>>
  THEN <<>>
  ELSE LET front == Distinct(SubSeq(list, 1, Len(list) - 1))
           last == list[Len(list)]
       IN IF Includes(front, last) THEN front ELSE Append(front, last)

\* .filter(s => s)
Truthy(s) == s # EmptySubject

\* allUniqueSubjects of a render with lessons l
allUniqueSubjects(l) == SelectSeq(Distinct(l), Truthy)

\* subjectsToDisplay of a render with lessons l and selection sel
subjectsToDisplayOf(l, sel) ==
  IF Len(sel) > 0
  THEN SelectSeq(sel, LAMBDA x : Includes(allUniqueSubjects(l), x))
  ELSE allUniqueSubjects(l)

subjectsToDisplay == subjectsToDisplayOf(lessons, selectedSubjects)

\* subjectsToRemind of loadReminders, computed again from the props
\* mutant: the fetch is issued for every subject of the lesson set
subjectsToRemind_M(l, sel) == SelectSeq(Distinct(l), Truthy)

subjectsToRemind(l, sel) ==
  LET allUnique == SelectSeq(Distinct(l), Truthy)
  IN IF Len(sel) > 0
     THEN SelectSeq(sel, LAMBDA x : Includes(allUnique, x))
     ELSE allUnique

(* ---------------- derived values of a render ---------------- *)
\* subjectsToDisplay[idx]: -1 stands for undefined
SubjectAt(idx) ==
  IF 0 <= idx /\ idx < numSubjects THEN subjectsToDisplay[idx + 1] ELSE -1

\* currentSubject: -1 stands for undefined (index outside subjectsToDisplay)
currentSubject == SubjectAt(currentSubjectIndex)

\* currentReminder is defined
HasReminder(s) == s \in Subjects /\ reminders[s] # NoReminder

\* currentReminder?.tasks.length || 0
TasksLength(s) == IF HasReminder(s) THEN reminders[s] ELSE 0

\* currentTask is defined
currentTaskDefined ==
  HasReminder(currentSubject) /\ currentTaskIndex < reminders[currentSubject]

\* the index of the correct option of a fetched task
correctAnswer(s, t) == (s + t) % NumOptions

\* `${currentSubject}-${currentTaskIndex}-${currentTask.question}`: the
\* question text is fixed by subject and index once the reminders are fetched
QuestionKey(s, t) == <<s, t>>
AllKeys == Subjects \X (0 .. MaxTasks)

ZeroMap == [s \in Subjects |-> 0]

\* one more call on a call counter
Count(n) == IF n < CallCap THEN n + 1 ELSE n

\* P.splice(i, 1)
RemoveAt(P, i) == [j \in 1 .. (Len(P) - 1) |-> IF j < i THEN P[j] ELSE P[j + 1]]

\* a setState on an unmounted component is dropped
Upd(old, new) == IF mounted THEN new ELSE old

\* the cells of a screen that was just constructed, before its effect ran
Constructed ==
  /\ mounted = TRUE
  /\ currentSubjectIndex = 0
  /\ currentTaskIndex = 0
  /\ selectedAnswer = NoAnswer
  /\ currentPage = "theory1"
  /\ reminders = [s \in Subjects |-> NoReminder]
  /\ isLoading = TRUE
  /\ error = FALSE
  /\ sessions = 0
  /\ fetching = <<>>
  /\ fetchedFor = <<>>
  /\ totalCoinsEarned = 0
  /\ correctAnswers = 0
  /\ totalQuestions = 0
  /\ subjectCorrectAnswers = ZeroMap
  /\ subjectTotalQuestions = ZeroMap
  /\ awardedQuestions = {}
  /\ awardedBonuses = {}
  /\ canClaimCompletionBonus = FALSE
  /\ hasClaimedBonus = FALSE
  /\ pending = <<>>
  /\ questionCalls = [k \in AllKeys |-> 0]
  /\ bonusCalls = ZeroMap
  /\ markCalls = ZeroMap
  /\ explanationVisits = ZeroMap
  /\ submitted = 0
  /\ wrongSubmitted = {}
  /\ correctKeys = {}
  /\ bonusReturned = 0
  /\ ledgerCompleted = {}
  /\ claimSuccesses = 0
  /\ awardFailed = FALSE

\* App has rendered the ReminderScreen: signed in, showReminder set from the
\* daily screen, nothing of App or CoursesScreen in flight
ReminderOpened ==
  /\ appIsLoading = FALSE
  /\ isAuthenticated = TRUE
  /\ showReminder = TRUE
  /\ showProfile = FALSE
  /\ roadmapCourse = NoCourse
  /\ currentScreen = "daily"
  /\ appPending = {}
  /\ enoughCoins = FALSE
  /\ loadingCourse = NoCourse
  /\ purchasedCourses = {}
  /\ shopPending = <<>>

\* lessons of the subjects 0 .. n - 1, one lesson each
OneLessonEach(n) == [i \in 1 .. n |-> i - 1]

\* the screen is shown for lessons of the subjects 0 .. numSubjects - 1, one
\* lesson each, and no selection
Init ==
  /\ numSubjects \in 0 .. MaxSubjects
  /\ lessons = OneLessonEach(numSubjects)
  /\ selectedSubjects = <<>>
  /\ username \in BOOLEAN
  /\ ledgerClaimed \in BOOLEAN
  /\ Constructed
  /\ ReminderOpened

(* ---------------- the session effect and loadReminders ---------------- *)
\* the accumulators after the effect's setters
\* mutant: the coin total is carried over into the new session
SessionCoins_M == totalCoinsEarned

SessionCoins == 0

\* useEffect(..., [selectedSubjects, lessons]) for props l and sel: the resets,
\* then loadReminders up to `await generateRemindersForSubjects(...)`, or to
\* its early return when there is no subject to remind
SessionEffect(l, sel) ==
  LET subjects == subjectsToRemind(l, sel)
  IN /\ totalCoinsEarned' = SessionCoins
     /\ correctAnswers' = 0
     /\ totalQuestions' = 0
     /\ subjectCorrectAnswers' = ZeroMap
     /\ subjectTotalQuestions' = ZeroMap
     /\ awardedQuestions' = {}
     /\ awardedBonuses' = {}
     /\ canClaimCompletionBonus' = FALSE
     /\ hasClaimedBonus' = FALSE
     /\ sessions' = sessions + 1
     /\ correctKeys' = {}
     /\ bonusReturned' = 0
     /\ IF Len(subjects) = 0
        THEN /\ error' = TRUE
             /\ isLoading' = FALSE
             /\ UNCHANGED <<fetching, fetchedFor>>
        ELSE /\ error' = FALSE
             /\ isLoading' = TRUE
             /\ fetching' = Append(fetching, subjects)
             /\ fetchedFor' = subjects
     /\ UNCHANGED <<shell, username, mounted, nav, reminders, pending, calls, observed, ledger>>

\* the effect runs after the first render
Mount ==
  /\ mounted /\ sessions = 0
  /\ SessionEffect(lessons, selectedSubjects)
  /\ UNCHANGED <<numSubjects, lessons, selectedSubjects>>

\* the parent renders the mounted screen with new props (handleShowReminder
\* of App ran again): the render resolves the subjects, the effect runs
NewSession(l, sel) ==
  /\ mounted /\ 0 < sessions /\ sessions < MaxSessions
  /\ lessons' = l
  /\ selectedSubjects' = sel
  /\ numSubjects' = Len(subjectsToDisplayOf(l, sel))
  /\ SessionEffect(l, sel)

\* fetch i resolves with a reminder (of any task count) for some of its
\* subjects, possibly not for all
LoadSucceeded(i) ==
  /\ i \in 1 .. Len(fetching)
  /\ \E r \in [Subjects -> {NoReminder} \cup (0 .. MaxTasks)] :
        /\ \A s \in Subjects : ~Includes(fetching[i], s) => r[s] = NoReminder
        /\ reminders' = Upd(reminders, r)
  /\ isLoading' = Upd(isLoading, FALSE)
  /\ fetching' = RemoveAt(fetching, i)
  /\ UNCHANGED <<shell, paid, props, mounted, nav, error, sessions, fetchedFor, totalCoinsEarned,
                 counters, awarded, claim, pending, calls, observed, ledger>>

\* setError(err.message || 'Failed to generate reminders. ...'): a message
\* mutant: the rejection leaves no error
ErrorOnFailure_M == FALSE

ErrorOnFailure == TRUE

\* generateRemindersForSubjects of fetch i rejected
LoadFailed(i) ==
  /\ i \in 1 .. Len(fetching)
  /\ error' = Upd(error, ErrorOnFailure)
  /\ isLoading' = Upd(isLoading, FALSE)
  /\ fetching' = RemoveAt(fetching, i)
  /\ UNCHANGED <<shell, paid, props, mounted, nav, reminders, sessions, fetchedFor, totalCoinsEarned,
                 counters, awarded, claim, pending, calls, observed, ledger>>

(* ---------------- what the render offers ---------------- *)
\* the main view is rendered: not the loading, error or no-reminder screen
MainView ==
  mounted /\ ~isLoading /\ ~error /\ HasReminder(currentSubject)

\* selectedAnswer !== null
\* mutant: the answer is not recorded by the time of the next press
Answered_M == FALSE

Answered == selectedAnswer # NoAnswer

\* option buttons: the task page with a task, enabled while nothing is selected
\* mutant: the options are rendered on every page
OptionButtonsShown_M == MainView /\ currentTaskDefined

OptionButtonsShown == MainView /\ currentPage = "task" /\ currentTaskDefined
OptionButtonsEnabled == OptionButtonsShown /\ ~Answered

\* footer buttons
BackButtonShown ==
  MainView /\ currentPage # "completion"
           /\ (currentPage = "theory2" \/ currentPage = "explanation")
NextButtonShown ==
  MainView /\ currentPage # "completion" /\ currentPage # "task"

\* the claim button of the completion page
ClaimButtonShown ==
  MainView /\ currentPage = "completion"
           /\ canClaimCompletionBonus /\ ~hasClaimedBonus

(* ---------------- suspended invocations ---------------- *)
\* The closure of a handler invocation: the values of the render in which
\* the control was pressed.  The two per-subject Maps are captured by
\* reference: idC / idT name the Map object (the state replaces its Map
\* object on every set, so the value of the counter at that moment names
\* it) and vC / vT are the object's contents, which .set() changes in place.
Closure(op, pc, ok) ==
  [op |-> op, pc |-> pc, ok |-> ok,
   subj |-> currentSubject, idx |-> currentSubjectIndex,
   len |-> numSubjects, tasks |-> TasksLength(currentSubject),
   bon |-> awardedBonuses,
   idC |-> correctAnswers, vC |-> subjectCorrectAnswers,
   idT |-> totalQuestions, vT |-> subjectTotalQuestions]

\* an invocation that no longer reads the captured Maps and Set
Forget(c, pc) ==
  [c EXCEPT !.pc = pc, !.tasks = 0, !.bon = {}, !.idC = -1, !.vC = ZeroMap,
            !.idT = -1, !.vT = ZeroMap]

\* The order of pending carries no meaning (any suspended call may return
\* next); it is kept sorted by Rank so that one multiset has one representation.
OpRank(op) == CASE op = "answer" -> 0 [] op = "next" -> 1 [] OTHER -> 2
PcRank(pc) ==
  CASE pc = "mark" -> 0 [] pc = "bonus" -> 1 [] pc = "allDone" -> 2
    [] pc = "claimed" -> 3 [] OTHER -> 4
Rank(r) == OpRank(r.op) * 100 + PcRank(r.pc) * 10 + r.idx

Insert(P, r) ==
  LET k == Cardinality({j \in 1 .. Len(P) : Rank(P[j]) <= Rank(r)})
  IN [j \in 1 .. (Len(P) + 1) |->
        IF j <= k THEN P[j] ELSE IF j = k + 1 THEN r ELSE P[j - 1]]

Remove(i) == RemoveAt(pending, i)
Replace(i, r) == Insert(RemoveAt(pending, i), r)

NumPending(op) == Cardinality({j \in 1 .. Len(pending) : pending[j].op = op})

(* ---------------- awardCoins ---------------- *)
\* const coinsToAward = isCorrect ? 10 : 5
\* mutant: the two amounts are swapped
coinsToAward_M(isCorrect) == IF isCorrect THEN IncorrectCoins ELSE CorrectCoins

coinsToAward(isCorrect) == IF isCorrect THEN CorrectCoins ELSE IncorrectCoins

\* awardCoins goes on to call addCoins: a user name, and the key is not in
\* the awardedQuestions of the render
\* mutant: the awardedQuestions guard is missing
AwardDue_M(questionKey) == username

AwardDue(questionKey) == username /\ questionKey \notin awardedQuestions

(* ---------------- handleAnswerSelect ---------------- *)
\* explanationVisits after a setCurrentPage(page) that leaves the screen on
\* the subject of index idx
Entered(page, idx) ==
  IF mounted /\ page = "explanation" /\ currentPage # "explanation"
  THEN [s \in Subjects |->
          IF s = SubjectAt(idx) THEN explanationVisits[s] + 1 ELSE explanationVisits[s]]
  ELSE explanationVisits

\* subjectCorrectAnswers.set(...) / subjectTotalQuestions.set(...) on the
\* captured Maps
NewVC(c) == IF c.ok THEN [c.vC EXCEPT ![c.subj] = @ + 1] ELSE c.vC
\* mutant: only a correct answer is counted in the subject's total
NewVT_M(c) == IF c.ok THEN [c.vT EXCEPT ![c.subj] = @ + 1] ELSE c.vT

NewVT(c) == [c.vT EXCEPT ![c.subj] = @ + 1]

\* the in-place .set() is seen by every closure that holds the same Map object
Mutate(P, c) ==
  [j \in 1 .. Len(P) |->
     [P[j] EXCEPT !.vC = IF c.ok /\ P[j].idC = c.idC THEN NewVC(c) ELSE @,
                  !.vT = IF P[j].idT = c.idT THEN NewVT(c) ELSE @]]

\* the part of handleAnswerSelect after `await awardCoins(...)`, run with
\* closure c; P is the other suspended invocations
AnswerTracked(c, P) ==
  /\ correctAnswers' = Upd(correctAnswers, IF c.ok THEN correctAnswers + 1 ELSE correctAnswers)
  /\ totalQuestions' = Upd(totalQuestions, totalQuestions + 1)
  /\ subjectCorrectAnswers' = Upd(subjectCorrectAnswers, IF c.ok THEN NewVC(c) ELSE subjectCorrectAnswers)
  /\ subjectTotalQuestions' = Upd(subjectTotalQuestions, NewVT(c))
  /\ currentPage' = Upd(currentPage, "explanation")
  /\ explanationVisits' = Entered("explanation", currentSubjectIndex)
  /\ pending' = Mutate(P, c)

\* the early return of handleAnswerSelect
AlreadyAnswered == Answered \/ ~currentTaskDefined \/ currentSubject = -1

handleAnswerSelect(answerIndex) ==
  LET isCorrect == answerIndex = correctAnswer(currentSubject, currentTaskIndex)
      questionKey == QuestionKey(currentSubject, currentTaskIndex)
      c == Closure("answer", "addCoins", isCorrect)
  IN IF AlreadyAnswered
     THEN UNCHANGED <<nav, totalCoinsEarned, counters, awarded, pending, questionCalls,
                      explanationVisits, submitted, wrongSubmitted, correctKeys>>
     ELSE /\ selectedAnswer' = answerIndex
          /\ submitted' = submitted + 1
          /\ wrongSubmitted' = IF isCorrect THEN wrongSubmitted
                                ELSE wrongSubmitted \cup {currentSubject}
          /\ UNCHANGED <<currentSubjectIndex, currentTaskIndex, awardedBonuses>>
          /\ IF AwardDue(questionKey)
             THEN \* suspended at `await addCoins(username, coinsToAward)`
                  /\ totalCoinsEarned' = totalCoinsEarned + coinsToAward(isCorrect)
                  /\ awardedQuestions' = awardedQuestions \cup {questionKey}
                  /\ questionCalls' = [questionCalls EXCEPT ![questionKey] = Count(@)]
                  /\ correctKeys' = IF isCorrect THEN correctKeys \cup {questionKey}
                                     ELSE correctKeys
                  /\ pending' = Insert(pending, c)
                  /\ UNCHANGED <<currentPage, counters, explanationVisits>>
             ELSE \* awardCoins returned at once
                  /\ AnswerTracked(c, pending)
                  /\ UNCHANGED <<totalCoinsEarned, awardedQuestions, questionCalls,
                                 correctKeys>>

\* a press on option button answerIndex, on a screen that has taken fewer
\* than budget answers
PressOption(answerIndex, budget) ==
  /\ mounted
  /\ submitted < budget
  /\ IF OptionButtonsEnabled
     THEN handleAnswerSelect(answerIndex)
     ELSE UNCHANGED <<nav, totalCoinsEarned, counters, awarded, pending, questionCalls,
                      explanationVisits, submitted, wrongSubmitted, correctKeys>>
  /\ UNCHANGED <<shell, bonusReturned, props, mounted, load, claim, bonusCalls, markCalls, ledger>>

\* submitAnswer(optionIndex)
SubmitAnswer(answerIndex) == PressOption(answerIndex, MaxAnswers)

\* awardCoins returns to handleAnswerSelect: its try / catch around the
\* await takes the rejection of addCoins
\* mutant: the rejection leaves awardCoins
AwardCoinsReturns_M(rejected) == ~rejected

AwardCoinsReturns(rejected) == TRUE

\* addCoins for an answer returned or rejected: the rejection is caught in
\* awardCoins, so handleAnswerSelect continues either way
AnswerAwardReturned(i, rejected) ==
  /\ i \in 1 .. Len(pending)
  /\ pending[i].op = "answer"
  /\ rejected \in BOOLEAN
  /\ awardFailed' = (awardFailed \/ rejected)
  /\ IF AwardCoinsReturns(rejected)
     THEN AnswerTracked(pending[i], Remove(i))
     ELSE /\ pending' = Remove(i)
          /\ UNCHANGED <<counters, currentPage, explanationVisits>>
  /\ UNCHANGED <<shell, paid, props, mounted, currentSubjectIndex, currentTaskIndex, selectedAnswer,
                 load, totalCoinsEarned, awarded, claim, calls, markCalls, submitted,
                 wrongSubmitted, ledgerCompleted, ledgerClaimed, claimSuccesses>>

(* ---------------- handleNext ---------------- *)
\* currentTaskIndex < (currentReminder?.tasks.length || 0) - 1
MoreTasks == currentTaskIndex < TasksLength(currentSubject) - 1

\* currentSubjectIndex < subjectsToDisplay.length - 1, for a captured index
\* and a captured list of length len
\* mutant: the last subject is never recognised
MoreSubjects_M(idx, len) == idx < len

MoreSubjects(idx, len) == idx < len - 1

\* the condition of the perfect-score bonus, on the values closure c holds
\* mutant: the number of tasks of the reminder is not looked at
PerfectScore_M(c) ==
  /\ c.vT[c.subj] = PerfectScoreTasks
  /\ c.vC[c.subj] = PerfectScoreTasks
  /\ c.subj \notin c.bon

PerfectScore(c) ==
  /\ c.vT[c.subj] = PerfectScoreTasks
  /\ c.vC[c.subj] = PerfectScoreTasks
  /\ c.tasks = PerfectScoreTasks
  /\ c.subj \notin c.bon

\* "Move to next subject or show completion" for an invocation with closure
\* c: rest is pending without the invocation, cont is pending with the
\* invocation suspended at areAllDailyTasksCompleted
MoveOn(c, rest, cont) ==
  IF MoreSubjects(c.idx, c.len)
  THEN /\ currentSubjectIndex' = Upd(currentSubjectIndex, c.idx + 1)
       /\ currentTaskIndex' = Upd(currentTaskIndex, 0)
       /\ selectedAnswer' = Upd(selectedAnswer, NoAnswer)
       /\ currentPage' = Upd(currentPage, "theory1")
       /\ pending' = rest
  ELSE IF username /\ c.len > 0
       THEN /\ pending' = cont
            /\ UNCHANGED nav
       ELSE /\ currentPage' = Upd(currentPage, "completion")
            /\ pending' = rest
            /\ UNCHANGED <<currentSubjectIndex, currentTaskIndex, selectedAnswer>>

\* theory1: setCurrentPage('theory2')
\* mutant: the second theory page is skipped
NextFromTheory1_M ==
  /\ currentPage' = "task"
  /\ UNCHANGED <<currentSubjectIndex, currentTaskIndex, selectedAnswer, pending>>

NextFromTheory1 ==
  /\ currentPage' = "theory2"
  /\ UNCHANGED <<currentSubjectIndex, currentTaskIndex, selectedAnswer, pending>>

\* theory2: to the first task
NextFromTheory2 ==
  /\ currentTaskIndex' = 0
  /\ selectedAnswer' = NoAnswer
  /\ currentPage' = "task"
  /\ UNCHANGED <<currentSubjectIndex, pending>>

\* explanation, more tasks: to the next task
NextTask ==
  /\ currentTaskIndex' = currentTaskIndex + 1
  /\ selectedAnswer' = NoAnswer
  /\ currentPage' = "task"
  /\ UNCHANGED <<currentSubjectIndex, pending>>

\* if (currentSubject && username): the ledger is told of the subject
\* mutant: the user name is not looked at
MarkDue_M == currentSubject # -1

MarkDue == currentSubject # -1 /\ username

\* explanation, all tasks done for this subject
SubjectDone ==
  LET c == Closure("next", "mark", FALSE)
  IN IF MarkDue
     THEN \* suspended at `await markSubjectCompleted(username, currentSubject)`
          /\ pending' = Insert(pending, c)
          /\ markCalls' = [markCalls EXCEPT ![currentSubject] = Count(@)]
          /\ UNCHANGED nav
     ELSE /\ MoveOn(c, pending, Insert(pending, Forget(c, "allDone")))
          /\ UNCHANGED markCalls

handleNext ==
  CASE currentPage = "theory1" -> NextFromTheory1 /\ UNCHANGED markCalls
    [] currentPage = "theory2" -> NextFromTheory2 /\ UNCHANGED markCalls
    [] currentPage = "explanation" /\ MoreTasks -> NextTask /\ UNCHANGED markCalls
    [] currentPage = "explanation" /\ ~MoreTasks -> SubjectDone
    [] OTHER -> UNCHANGED <<nav, pending, markCalls>>

\* advance(): a press on the footer's Next button
Advance ==
  /\ mounted
  /\ Len(pending) < MaxPending
  /\ IF NextButtonShown
     THEN handleNext
     ELSE UNCHANGED <<nav, pending, markCalls>>
  /\ UNCHANGED <<shell, paid, props, mounted, load, totalCoinsEarned, counters, awarded, claim,
                 questionCalls, bonusCalls, explanationVisits, submitted, wrongSubmitted,
                 ledger>>

\* a ledger call awaited by handleNext or by the claim handler rejects: nothing
\* catches it, the invocation ends where it is
Rejected(i) ==
  /\ i \in 1 .. Len(pending)
  /\ pending[i].op # "answer"
  /\ pending' = Remove(i)
  /\ UNCHANGED <<shell, paid, props, mounted, nav, load, totalCoinsEarned, counters, awarded,
                 claim, calls, observed, ledger>>

(* ---------------- the Reward Ledger (utils/database) ---------------- *)
\* markSubjectCompleted(user, subject): the subject is completed today
markSubjectCompleted(s) == ledgerCompleted \cup {s}

\* areAllDailyTasksCompleted(user, expectedSubjectCount)
areAllDailyTasksCompleted(expectedSubjectCount) ==
  Cardinality(ledgerCompleted) >= expectedSubjectCount

\* hasClaimedCompletionBonusToday(user)
hasClaimedCompletionBonusToday == ledgerClaimed

\* claimCompletionBonus(user) succeeds once per day
ClaimSucceeds == ~ledgerClaimed

\* markSubjectCompleted returned
MarkReturned(i) ==
  /\ i \in 1 .. Len(pending)
  /\ pending[i].op = "next" /\ pending[i].pc = "mark"
  /\ ledgerCompleted' = markSubjectCompleted(pending[i].subj)
  /\ IF PerfectScore(pending[i])
     THEN \* suspended at `await addCoins(username, 20)`
          /\ awardedBonuses' = Upd(awardedBonuses, awardedBonuses \cup {pending[i].subj})
          /\ bonusCalls' = [bonusCalls EXCEPT ![pending[i].subj] = Count(@)]
          /\ pending' = Replace(i, Forget(pending[i], "bonus"))
          /\ UNCHANGED nav
     ELSE /\ MoveOn(pending[i], Remove(i), Replace(i, Forget(pending[i], "allDone")))
          /\ UNCHANGED <<awardedBonuses, bonusCalls>>
  /\ UNCHANGED <<shell, paid, props, mounted, load, totalCoinsEarned, counters, awardedQuestions,
                 claim, questionCalls, observed, ledgerClaimed, claimSuccesses,
                 awardFailed>>

\* addCoins(username, 20) returned
BonusReturned(i) ==
  /\ i \in 1 .. Len(pending)
  /\ pending[i].op = "next" /\ pending[i].pc = "bonus"
  /\ totalCoinsEarned' = Upd(totalCoinsEarned, totalCoinsEarned + PerfectScoreBonus)
  /\ bonusReturned' = Upd(bonusReturned, bonusReturned + 1)
  /\ MoveOn(pending[i], Remove(i), Replace(i, Forget(pending[i], "allDone")))
  /\ UNCHANGED <<shell, correctKeys, props, mounted, load, counters, awarded, claim, calls, observed,
                 ledger>>

\* areAllDailyTasksCompleted(username, subjectsToDisplay.length) returned
AllDoneReturned(i) ==
  /\ i \in 1 .. Len(pending)
  /\ pending[i].op = "next" /\ pending[i].pc = "allDone"
  /\ IF areAllDailyTasksCompleted(pending[i].len)
     THEN \* suspended at `await hasClaimedCompletionBonusToday(username)`
          /\ pending' = Replace(i, Forget(pending[i], "claimed"))
          /\ UNCHANGED <<currentPage, canClaimCompletionBonus>>
     ELSE /\ canClaimCompletionBonus' = Upd(canClaimCompletionBonus, FALSE)
          /\ currentPage' = Upd(currentPage, "completion")
          /\ pending' = Remove(i)
  /\ UNCHANGED <<shell, paid, props, mounted, currentSubjectIndex, currentTaskIndex, selectedAnswer,
                 load, totalCoinsEarned, counters, awarded, hasClaimedBonus, calls,
                 observed, ledger>>

\* setCanClaimCompletionBonus(!alreadyClaimed)
\* mutant: the ledger's answer is not looked at
ClaimEligible_M(alreadyClaimed) == TRUE

ClaimEligible(alreadyClaimed) == ~alreadyClaimed

\* hasClaimedCompletionBonusToday returned
ClaimedReturned(i) ==
  /\ i \in 1 .. Len(pending)
  /\ pending[i].op = "next" /\ pending[i].pc = "claimed"
  /\ canClaimCompletionBonus' =
        Upd(canClaimCompletionBonus, ClaimEligible(hasClaimedCompletionBonusToday))
  /\ currentPage' = Upd(currentPage, "completion")
  /\ pending' = Remove(i)
  /\ UNCHANGED <<shell, paid, props, mounted, currentSubjectIndex, currentTaskIndex, selectedAnswer,
                 load, totalCoinsEarned, counters, awarded, hasClaimedBonus, calls,
                 observed, ledger>>

(* ---------------- handleBack ---------------- *)
\* the values handleBack sets: <<currentSubjectIndex, currentTaskIndex,
\* selectedAnswer, currentPage>>
BackTarget ==
  CASE currentPage = "task" /\ currentTaskIndex > 0 ->
         <<currentSubjectIndex, currentTaskIndex - 1, NoAnswer, "explanation">>
    [] currentPage = "explanation" ->
         <<currentSubjectIndex, currentTaskIndex, NoAnswer, "task">>
    [] currentPage = "theory2" ->
         <<currentSubjectIndex, currentTaskIndex, selectedAnswer, "theory1">>
    [] currentPage = "theory1" /\ currentSubjectIndex > 0 ->
         IF TasksLength(SubjectAt(currentSubjectIndex - 1)) > 0
         THEN <<currentSubjectIndex - 1, TasksLength(SubjectAt(currentSubjectIndex - 1)) - 1,
                selectedAnswer, "explanation">>
         ELSE <<currentSubjectIndex - 1, currentTaskIndex, selectedAnswer, "theory2">>
    [] OTHER -> nav

\* what a press on Back does to the four cells: nothing where the footer
\* does not render the button
RetreatTarget == IF BackButtonShown THEN BackTarget ELSE nav

handleBack ==
  /\ currentSubjectIndex' = BackTarget[1]
  /\ currentTaskIndex' = BackTarget[2]
  /\ selectedAnswer' = BackTarget[3]
  /\ currentPage' = BackTarget[4]
  /\ explanationVisits' = Entered(BackTarget[4], BackTarget[1])

\* retreat(): a press on the footer's Back button
Retreat ==
  /\ mounted
  /\ IF BackButtonShown THEN handleBack ELSE UNCHANGED <<nav, explanationVisits>>
  /\ UNCHANGED <<shell, paid, props, mounted, load, totalCoinsEarned, counters, awarded, claim,
                 pending, calls, markCalls, submitted, wrongSubmitted, ledger>>

(* ---------------- the claim button of the completion page ---------------- *)
\* claimBonus(): a press on "Claim 100 Coin Bonus"
ClaimBonus ==
  /\ mounted
  /\ Len(pending) < MaxPending
  /\ IF ClaimButtonShown /\ username
     THEN \* suspended at `await claimCompletionBonus(username)`
          pending' = Insert(pending, Forget(Closure("claim", "claim", FALSE), "claim"))
     ELSE UNCHANGED pending
  /\ UNCHANGED <<shell, paid, props, mounted, nav, load, totalCoinsEarned, counters, awarded, claim,
                 calls, observed, ledger>>

\* result.success && result.coins !== undefined
\* mutant: the result of the claim is not looked at
ClaimAccepted_M(success) == TRUE

ClaimAccepted(success) == success

\* claimCompletionBonus returned
ClaimReturned(i) ==
  /\ i \in 1 .. Len(pending)
  /\ pending[i].op = "claim"
  /\ pending' = Remove(i)
  /\ ledgerClaimed' = (ledgerClaimed \/ ClaimSucceeds)
  /\ IF ClaimAccepted(ClaimSucceeds)
     THEN /\ claimSuccesses' = Count(claimSuccesses)
          /\ hasClaimedBonus' = Upd(hasClaimedBonus, TRUE)
          /\ totalCoinsEarned' = Upd(totalCoinsEarned, totalCoinsEarned + CompletionBonus)
          /\ canClaimCompletionBonus' = Upd(canClaimCompletionBonus, FALSE)
     ELSE UNCHANGED <<claimSuccesses, hasClaimedBonus, totalCoinsEarned,
                      canClaimCompletionBonus>>
  /\ UNCHANGED <<shell, paid, props, mounted, nav, load, counters, awarded, calls, observed,
                 ledgerCompleted, awardFailed>>

(* ---------------- onClose ---------------- *)
\* close(): the parent unmounts the screen; suspended invocations still run
Close ==
  /\ mounted /\ ~isLoading
  /\ mounted' = FALSE
  /\ currentSubjectIndex' = 0
  /\ currentTaskIndex' = 0
  /\ selectedAnswer' = NoAnswer
  /\ currentPage' = "theory1"
  /\ error' = FALSE
  /\ totalCoinsEarned' = 0
  /\ correctAnswers' = 0
  /\ totalQuestions' = 0
  /\ subjectCorrectAnswers' = ZeroMap
  /\ subjectTotalQuestions' = ZeroMap
  /\ awardedQuestions' = {}
  /\ awardedBonuses' = {}
  /\ canClaimCompletionBonus' = FALSE
  /\ hasClaimedBonus' = FALSE
  /\ submitted' = 0
  /\ correctKeys' = {}
  /\ bonusReturned' = 0
  /\ UNCHANGED <<shell, props, reminders, isLoading, fetch, pending, calls, markCalls,
                 explanationVisits, wrongSubmitted, ledger>>

Next ==
  \/ Mount
  \/ \E i \in DOMAIN fetching : LoadSucceeded(i)
  \/ \E i \in DOMAIN fetching : LoadFailed(i)
  \/ \E answerIndex \in 0 .. (NumOptions - 1) : SubmitAnswer(answerIndex)
  \/ Advance
  \/ Retreat
  \/ ClaimBonus
  \/ Close
  \/ \E i \in DOMAIN pending, rejected \in BOOLEAN : AnswerAwardReturned(i, rejected)
  \/ \E i \in DOMAIN pending : Rejected(i)
  \/ \E i \in DOMAIN pending : MarkReturned(i)
  \/ \E i \in DOMAIN pending : BonusReturned(i)
  \/ \E i \in DOMAIN pending : AllDoneReturned(i)
  \/ \E i \in DOMAIN pending : ClaimedReturned(i)
  \/ \E i \in DOMAIN pending : ClaimReturned(i)

Spec == Init /\ [][Next]_vars

\* the screen with a parent that passes new props while it is mounted
NextSessions ==
  \/ Mount
  \/ \E n \in 0 .. MaxSubjects : NewSession(OneLessonEach(n), <<>>)
  \/ \E i \in DOMAIN fetching : LoadSucceeded(i)
  \/ \E i \in DOMAIN fetching : LoadFailed(i)
  \/ \E answerIndex \in 0 .. (NumOptions - 1) : SubmitAnswer(answerIndex)
  \/ Advance
  \/ ClaimBonus
  \/ \E i \in DOMAIN pending : AnswerAwardReturned(i, FALSE)
  \/ \E i \in DOMAIN pending : MarkReturned(i)
  \/ \E i \in DOMAIN pending : BonusReturned(i)
  \/ \E i \in DOMAIN pending : AllDoneReturned(i)
  \/ \E i \in DOMAIN pending : ClaimedReturned(i)
  \/ \E i \in DOMAIN pending : ClaimReturned(i)

SpecSessions == Init /\ [][NextSessions]_vars

\* the props a parent may pass: up to MaxLessons lessons, each with a subject
\* or with the empty string, and up to MaxSelected distinct selected subjects
LessonLists == UNION {[1 .. n -> Subjects \cup {EmptySubject}] : n \in 0 .. MaxLessons}
Selections ==
  {sel \in UNION {[1 .. n -> Subjects] : n \in 0 .. MaxSelected} :
     \A i, j \in DOMAIN sel : i # j => sel[i] # sel[j]}

\* the screen is shown by a named user for any lessons and any selection
InitResolve ==
  /\ lessons \in LessonLists
  /\ selectedSubjects \in Selections
  /\ numSubjects = Len(subjectsToDisplayOf(lessons, selectedSubjects))
  /\ username = TRUE
  /\ ledgerClaimed = FALSE
  /\ Constructed
  /\ ReminderOpened

\* the screen up to the end of its fetch
NextResolve ==
  \/ Mount
  \/ \E i \in DOMAIN fetching : LoadSucceeded(i)
  \/ \E i \in DOMAIN fetching : LoadFailed(i)

SpecResolve == InitResolve /\ [][NextResolve]_vars

\* the screen of a named user with one subject
InitOneSubject ==
  /\ numSubjects = 1
  /\ lessons = OneLessonEach(1)
  /\ selectedSubjects = <<>>
  /\ username = TRUE
  /\ ledgerClaimed = FALSE
  /\ Constructed
  /\ ReminderOpened

\* one session of it, with up to MaxAnswersOneSubject answers
NextOneSubject ==
  \/ Mount
  \/ \E i \in DOMAIN fetching : LoadSucceeded(i)
  \/ \E answerIndex \in 0 .. (NumOptions - 1) :
        PressOption(answerIndex, MaxAnswersOneSubject)
  \/ Advance
  \/ Retreat
  \/ \E i \in DOMAIN pending, rejected \in BOOLEAN : AnswerAwardReturned(i, rejected)
  \/ \E i \in DOMAIN pending : MarkReturned(i)
  \/ \E i \in DOMAIN pending : BonusReturned(i)
  \/ \E i \in DOMAIN pending : AllDoneReturned(i)
  \/ \E i \in DOMAIN pending : ClaimedReturned(i)

SpecOneSubject == InitOneSubject /\ [][NextOneSubject]_vars

(* ---------------- the App shell (App) ---------------- *)
\* what App returns from its render
AppView ==
  CASE appIsLoading -> "loading"
    [] ~isAuthenticated -> "login"
    [] showReminder -> "reminder"
    [] roadmapCourse # NoCourse -> "roadmap"
    [] showProfile -> "profile"
    [] OTHER -> "main"

\* the main render: the screen it shows and the bottom navigation bar
HomePageShown == AppView = "main" /\ currentScreen = "daily"
CoursesScreenShown == AppView = "main" /\ currentScreen = "courses"
BottomNavShown ==
  AppView = "main" /\ currentScreen # "roadmap" /\ currentScreen # "profile"

\* the invocations of an unmounted CoursesScreen go on, their setState dropped
Unmounted(P) == [j \in DOMAIN P |-> [P[j] EXCEPT !.live = FALSE]]

\* the effect of CoursesScreen: loadPurchasedCourses up to
\* `await getPurchasedCourses(username)`
LoadStarted(P) == Append(P, [pc |-> "load", course |-> NoCourse, live |-> TRUE])

\* the CoursesScreen instance after a step of App: unmounted when the render
\* no longer returns it, mounted (with its initial state, its effect run)
\* when the render returns it again
CoursesScreenFollows ==
  IF CoursesScreenShown /\ ~CoursesScreenShown'
  THEN /\ loadingCourse' = NoCourse
       /\ purchasedCourses' = {}
       /\ shopPending' = Unmounted(shopPending)
  ELSE IF ~CoursesScreenShown /\ CoursesScreenShown'
  THEN /\ Len(shopPending) < MaxShopPending
       /\ loadingCourse' = NoCourse
       /\ purchasedCourses' = {}
       /\ shopPending' = LoadStarted(shopPending)
  ELSE UNCHANGED shop

\* checkAuthStatus, started by the effect of App, has run to its end: found
\* iff a current user was stored and its stats were read
AuthChecked(found, coins) ==
  /\ "checkAuth" \in appPending
  /\ appPending' = appPending \ {"checkAuth"}
  /\ isAuthenticated' = (isAuthenticated \/ found)
  /\ enoughCoins' = IF found THEN coins ELSE enoughCoins
  /\ appIsLoading' = FALSE
  /\ UNCHANGED <<showReminder, showProfile, roadmapCourse, currentScreen>>
  /\ CoursesScreenFollows
  /\ UNCHANGED screen

\* handleLogin up to `await getOrCreateUser(...)`
Login ==
  /\ AppView = "login" /\ "login" \notin appPending
  /\ appIsLoading' = TRUE
  /\ appPending' = appPending \cup {"login"}
  /\ UNCHANGED <<isAuthenticated, showReminder, showProfile, roadmapCourse,
                 currentScreen, enoughCoins>>
  /\ CoursesScreenFollows
  /\ UNCHANGED screen

\* the rest of handleLogin: ok iff neither awaited call rejected
LoginReturned(ok, coins) ==
  /\ "login" \in appPending
  /\ appPending' = appPending \ {"login"}
  /\ isAuthenticated' = (isAuthenticated \/ ok)
  /\ enoughCoins' = IF ok THEN coins ELSE enoughCoins
  /\ appIsLoading' = FALSE
  /\ UNCHANGED <<showReminder, showProfile, roadmapCourse, currentScreen>>
  /\ CoursesScreenFollows
  /\ UNCHANGED screen

\* onShowProfile of HomePage
OpenProfile ==
  /\ HomePageShown
  /\ showProfile' = TRUE
  /\ currentScreen' = "profile"
  /\ UNCHANGED <<appIsLoading, isAuthenticated, showReminder, roadmapCourse,
                 appPending, enoughCoins>>
  /\ CoursesScreenFollows
  /\ UNCHANGED screen

\* onBack of ProfileScreen
ProfileBack ==
  /\ AppView = "profile"
  /\ showProfile' = FALSE
  /\ currentScreen' = "daily"
  /\ UNCHANGED <<appIsLoading, isAuthenticated, showReminder, roadmapCourse,
                 appPending, enoughCoins>>
  /\ CoursesScreenFollows
  /\ UNCHANGED screen

\* onLogout of ProfileScreen, up to `await logout()` in handleLogout
Logout ==
  /\ AppView = "profile" /\ "logout" \notin appPending
  /\ appPending' = appPending \cup {"logout"}
  /\ UNCHANGED <<appIsLoading, isAuthenticated, showReminder, showProfile,
                 roadmapCourse, currentScreen, enoughCoins>>
  /\ CoursesScreenFollows
  /\ UNCHANGED screen

\* logout() returned: the rest of handleLogout, then setShowProfile(false),
\* neither of which sets currentScreen; when it rejected, nothing is set
LogoutReturned(ok) ==
  /\ "logout" \in appPending
  /\ appPending' = appPending \ {"logout"}
  /\ IF ok
     THEN /\ isAuthenticated' = FALSE
          /\ showReminder' = FALSE
          /\ showProfile' = FALSE
          /\ enoughCoins' = FALSE
     ELSE UNCHANGED <<isAuthenticated, showReminder, showProfile, enoughCoins>>
  /\ UNCHANGED <<appIsLoading, roadmapCourse, currentScreen>>
  /\ CoursesScreenFollows
  /\ UNCHANGED screen

\* a press on a button of the bottom navigation bar
Tab(s) ==
  /\ BottomNavShown
  /\ s \in {"daily", "courses"}
  /\ currentScreen' = s
  /\ UNCHANGED <<appIsLoading, isAuthenticated, showReminder, showProfile,
                 roadmapCourse, appPending, enoughCoins>>
  /\ CoursesScreenFollows
  /\ UNCHANGED screen

\* onShowRoadmap of CoursesScreen: offered for a purchased course
ShowRoadmap(c) ==
  /\ CoursesScreenShown /\ c \in purchasedCourses
  /\ roadmapCourse' = c
  /\ currentScreen' = "roadmap"
  /\ UNCHANGED <<appIsLoading, isAuthenticated, showReminder, showProfile,
                 appPending, enoughCoins>>
  /\ CoursesScreenFollows
  /\ UNCHANGED screen

\* onBack of CourseRoadmapScreen
RoadmapBack ==
  /\ AppView = "roadmap"
  /\ roadmapCourse' = NoCourse
  /\ currentScreen' = "courses"
  /\ UNCHANGED <<appIsLoading, isAuthenticated, showReminder, showProfile,
                 appPending, enoughCoins>>
  /\ CoursesScreenFollows
  /\ UNCHANGED screen

\* handleShowReminder: with the lessons in userStats it runs to its end, else
\* up to `await getLessons(username)`
ShowReminder(haveLessons) ==
  /\ HomePageShown /\ "showReminder" \notin appPending
  /\ IF haveLessons
     THEN showReminder' = TRUE /\ UNCHANGED appPending
     ELSE appPending' = appPending \cup {"showReminder"} /\ UNCHANGED showReminder
  /\ UNCHANGED <<appIsLoading, isAuthenticated, showProfile, roadmapCourse,
                 currentScreen, enoughCoins>>
  /\ CoursesScreenFollows
  /\ UNCHANGED screen

\* getLessons returned, or rejected into the catch
ShowReminderReturned(ok) ==
  /\ "showReminder" \in appPending
  /\ appPending' = appPending \ {"showReminder"}
  /\ showReminder' = (showReminder \/ ok)
  /\ UNCHANGED <<appIsLoading, isAuthenticated, showProfile, roadmapCourse,
                 currentScreen, enoughCoins>>
  /\ CoursesScreenFollows
  /\ UNCHANGED screen

\* handleCloseReminder up to `await getOrCreateUser(username)`
CloseReminder ==
  /\ AppView = "reminder"
  /\ showReminder' = FALSE
  /\ appPending' = appPending \cup {"reloadStats"}
  /\ UNCHANGED <<appIsLoading, isAuthenticated, showProfile, roadmapCourse,
                 currentScreen, enoughCoins>>
  /\ CoursesScreenFollows
  /\ UNCHANGED screen

\* getOrCreateUser returned to handleCloseReminder or to onCoinsUpdated:
\* setUserStats, which runs the effect of a mounted CoursesScreen again; a
\* rejection caught by handleCloseReminder sets nothing
StatsReloaded(coins, rejected) ==
  /\ "reloadStats" \in appPending
  /\ coins \in BOOLEAN
  /\ appPending' = appPending \ {"reloadStats"}
  /\ enoughCoins' = IF rejected THEN enoughCoins ELSE coins
  /\ UNCHANGED <<appIsLoading, isAuthenticated, showReminder, showProfile,
                 roadmapCourse, currentScreen>>
  /\ IF ~rejected /\ CoursesScreenShown /\ Len(shopPending) < MaxShopPending
     THEN /\ shopPending' = LoadStarted(shopPending)
          /\ UNCHANGED <<loadingCourse, purchasedCourses>>
     ELSE UNCHANGED shop
  /\ UNCHANGED screen

(* ---------------- CoursesScreen ---------------- *)
\* the Purchase button of course c is rendered and not disabled
PurchaseEnabled(c) ==
  /\ CoursesScreenShown /\ c \notin purchasedCourses
  /\ enoughCoins /\ loadingCourse # c

\* handlePurchase(courseId) up to `await purchaseCourse(...)`
handlePurchase(c) ==
  /\ c \in Courses
  /\ PurchaseEnabled(c)
  /\ Len(shopPending) < MaxShopPending
  /\ loadingCourse' = c
  /\ shopPending' = Append(shopPending, [pc |-> "purchaseCourse", course |-> c, live |-> TRUE])
  /\ UNCHANGED <<purchasedCourses, app, screen>>

\* finally { setLoadingCourse(null) } of invocation r
Finally(r) == IF r.live THEN NoCourse ELSE loadingCourse

\* purchaseCourse returned: on success the handler goes on into
\* loadPurchasedCourses, else it alerts and ends
PurchaseReturned(i, success) ==
  /\ i \in 1 .. Len(shopPending)
  /\ shopPending[i].pc = "purchaseCourse"
  /\ IF success
     THEN /\ shopPending' = [shopPending EXCEPT ![i].pc = "getPurchasedCourses"]
          /\ UNCHANGED loadingCourse
     ELSE /\ shopPending' = RemoveAt(shopPending, i)
          /\ loadingCourse' = Finally(shopPending[i])
  /\ UNCHANGED <<purchasedCourses, app, screen>>

\* getPurchasedCourses returned a list, or rejected into the catch of
\* loadPurchasedCourses; after it handlePurchase goes on to getUserData
PurchasedCoursesReturned(i, purchased, rejected) ==
  /\ i \in 1 .. Len(shopPending)
  /\ shopPending[i].pc \in {"load", "getPurchasedCourses"}
  /\ purchased \in SUBSET Courses
  /\ purchasedCourses' =
        IF shopPending[i].live /\ ~rejected THEN purchased ELSE purchasedCourses
  /\ shopPending' =
        IF shopPending[i].pc = "load"
        THEN RemoveAt(shopPending, i)
        ELSE [shopPending EXCEPT ![i].pc = "getUserData"]
  /\ UNCHANGED <<loadingCourse, app, screen>>

\* getUserData returned: onCoinsUpdated of App reloads the user's stats; the
\* handler ends
UserDataReturned(i, rejected) ==
  /\ i \in 1 .. Len(shopPending)
  /\ shopPending[i].pc = "getUserData"
  /\ appPending' = IF rejected THEN appPending ELSE appPending \cup {"reloadStats"}
  /\ shopPending' = RemoveAt(shopPending, i)
  /\ loadingCourse' = Finally(shopPending[i])
  /\ UNCHANGED <<purchasedCourses, appIsLoading, isAuthenticated, showReminder,
                 showProfile, roadmapCourse, currentScreen, enoughCoins, screen>>

\* App starts: loading, not authenticated, checkAuthStatus in flight
AppStarted ==
  /\ appIsLoading = TRUE
  /\ isAuthenticated = FALSE
  /\ showReminder = FALSE
  /\ showProfile = FALSE
  /\ roadmapCourse = NoCourse
  /\ currentScreen = "daily"
  /\ appPending = {"checkAuth"}
  /\ loadingCourse = NoCourse
  /\ purchasedCourses = {}
  /\ shopPending = <<>>

\* the App from its start; the cells of a reminder screen stay as constructed
InitApp ==
  /\ AppStarted
  /\ enoughCoins = FALSE
  /\ numSubjects = 0
  /\ lessons = <<>>
  /\ selectedSubjects = <<>>
  /\ username = FALSE
  /\ ledgerClaimed = FALSE
  /\ Constructed

NextApp ==
  \/ \E found, coins \in BOOLEAN : AuthChecked(found, coins)
  \/ Login
  \/ \E ok, coins \in BOOLEAN : LoginReturned(ok, coins)
  \/ OpenProfile
  \/ ProfileBack
  \/ Logout
  \/ \E ok \in BOOLEAN : LogoutReturned(ok)
  \/ \E s \in {"daily", "courses"} : Tab(s)
  \/ \E c \in Courses : ShowRoadmap(c)
  \/ RoadmapBack
  \/ \E haveLessons \in BOOLEAN : ShowReminder(haveLessons)
  \/ \E ok \in BOOLEAN : ShowReminderReturned(ok)
  \/ CloseReminder
  \/ \E coins, rejected \in BOOLEAN : StatsReloaded(coins, rejected)
  \/ \E c \in Courses : handlePurchase(c)
  \/ \E i \in DOMAIN shopPending, success \in BOOLEAN : PurchaseReturned(i, success)
  \/ \E i \in DOMAIN shopPending, purchased \in SUBSET Courses, rejected \in BOOLEAN :
        PurchasedCoursesReturned(i, purchased, rejected)
  \/ \E i \in DOMAIN shopPending, rejected \in BOOLEAN : UserDataReturned(i, rejected)

SpecApp == InitApp /\ [][NextApp]_vars

TypeOK ==
  /\ currentPage \in Pages
  /\ selectedAnswer \in {NoAnswer} \cup (0 .. (NumOptions - 1))
  /\ totalQuestions \in 0 .. MaxAnswersOneSubject
  /\ markCalls \in [Subjects -> 0 .. CallCap]
  /\ explanationVisits \in [Subjects -> 0 .. MaxAnswersOneSubject]
  /\ numSubjects = Len(subjectsToDisplay)
  /\ sessions \in 0 .. MaxSessions
  /\ submitted \in 0 .. MaxAnswersOneSubject
  /\ Len(fetching) <= sessions
  /\ currentScreen \in Screens
  /\ roadmapCourse \in Courses \cup {NoCourse}
  /\ loadingCourse \in Courses \cup {NoCourse}
  /\ purchasedCourses \subseteq Courses
  /\ Len(shopPending) <= MaxShopPending

(* ---------------- C1 ---------------- *)
\* C1: in a session addCoins is invoked at most once for every question key,
\* whatever the sequence of submitAnswer, advance and retreat, also when the
\* user goes Back to an answered task and answers it again.
C1_AtMostOneAwardPerKey == \A k \in AllKeys : questionCalls[k] <= 1

\* a one-task subject that was answered twice (Back, then a second answer)
\* with one addCoins call for its key
C1_Witness ==
  \E s \in SubjectIdx :
     /\ reminders[s] = 1
     /\ subjectTotalQuestions[s] = 2
     /\ questionCalls[QuestionKey(s, 0)] = 1

(* ---------------- C2 ---------------- *)
\* C2: the guards are set before the asynchronous addCoins call, so two
\* overlapping invocations never both pass a guard: no question key gets two
\* addCoins calls and no subject gets two addCoins(+20) calls.
C2_NoGuardPassedTwice ==
  /\ \A k \in AllKeys : questionCalls[k] < 2
  /\ \A s \in SubjectIdx : bonusCalls[s] < 2

(* ---------------- C3 ---------------- *)
\* the advance that leaves subject s has got past markSubjectCompleted
C3_Left(s) ==
  /\ s \in ledgerCompleted
  /\ \A j \in DOMAIN pending :
        ~(pending[j].op = "next" /\ pending[j].pc = "mark" /\ pending[j].subj = s)

\* C3: for a subject with exactly 3 tasks that the user answered 3 out of 3
\* correctly, the perfect-score bonus (addCoins +20) is granted exactly once,
\* at the advance that leaves the subject's last explanation.
C3_PerfectBonusExactlyOnce ==
  \A s \in SubjectIdx :
     ( /\ mounted /\ username
       /\ reminders[s] = PerfectScoreTasks
       /\ subjectCorrectAnswers[s] = PerfectScoreTasks
       /\ subjectTotalQuestions[s] = PerfectScoreTasks
       /\ C3_Left(s) )
     => bonusCalls[s] = 1

(* ---------------- C4 ---------------- *)
\* C4: however often claimBonus is invoked, one after the other or while a
\* claim is still pending, at most one invocation succeeds (the +100 is
\* credited at most once), and after a successful claim the claim button is
\* no longer offered.
C4_ClaimSucceedsAtMostOnce ==
  /\ claimSuccesses <= 1
  /\ claimSuccesses >= 1 => ~ClaimButtonShown

\* a claim has succeeded while a second claim, pressed before the first
\* returned, is still awaiting the ledger
C4_Witness ==
  /\ claimSuccesses = 1
  /\ ledgerClaimed
  /\ NumPending("claim") = 1

(* ---------------- C5 ---------------- *)
\* the task state with no answer recorded
C5_TaskState ==
  mounted /\ currentPage = "task" /\ currentTaskDefined /\ selectedAnswer = NoAnswer

\* 10 coins for the correct option, 5 for another
C5_Coins(i) ==
  IF i = correctAnswer(currentSubject, currentTaskIndex) THEN 10 ELSE 5

\* the counters and the page once awardCoins has returned, for an answer to a
\* task of subject s that was correct iff ok; t and c are the subject's
\* counters the update starts from
C5_Tracked(s, ok, t, c) ==
  /\ totalQuestions' = totalQuestions + 1
  /\ correctAnswers' = IF ok THEN correctAnswers + 1 ELSE correctAnswers
  /\ subjectTotalQuestions'[s] = t + 1
  /\ subjectCorrectAnswers'[s] = IF ok THEN c + 1 ELSE subjectCorrectAnswers[s]
  /\ currentPage' = "explanation"

\* the press: whether coins are due is given by due
C5_Press(i, due) ==
  /\ selectedAnswer' = i
  /\ IF due
     THEN /\ totalCoinsEarned' = totalCoinsEarned + C5_Coins(i)
          /\ questionCalls'[QuestionKey(currentSubject, currentTaskIndex)] >= 1
          /\ UNCHANGED <<counters, currentPage>>
     ELSE /\ UNCHANGED totalCoinsEarned
          /\ C5_Tracked(currentSubject,
                        i = correctAnswer(currentSubject, currentTaskIndex),
                        subjectTotalQuestions[currentSubject],
                        subjectCorrectAnswers[currentSubject])

C6_SecondSubmitIgnored ==
  [][ \A i \in 0 .. (NumOptions - 1) :
         (selectedAnswer # NoAnswer /\ SubmitAnswer(i)) => UNCHANGED vars ]_vars

\* the task page with an answer recorded, its award call not yet returned,
\* and the session's answer budget not used up
C6_Witness ==
  /\ mounted /\ currentPage = "task" /\ currentTaskDefined
  /\ selectedAnswer # NoAnswer
  /\ NumPending("answer") = 1
  /\ totalQuestions + NumPending("answer") < MaxAnswers

(* ---------------- C7 ---------------- *)
\* C7: submitAnswer takes effect in the task state only: on theory1, theory2,
\* explanation and completion it changes no session state and issues no award.
C7_SubmitOnlyInTaskState ==
  [][ \A i \in 0 .. (NumOptions - 1) :
         (currentPage # "task" /\ SubmitAnswer(i)) => UNCHANGED vars ]_vars

\* a theory page of a subject whose current task exists and is unanswered:
\* nothing but the page keeps an answer from being taken
C7_Witness ==
  /\ MainView /\ currentPage = "theory2"
  /\ currentTaskDefined /\ selectedAnswer = NoAnswer
  /\ totalQuestions = 1

(* ---------------- C8 ---------------- *)
\* the advance ends by leaving the subject of index idx for the next one
C8_NextSubject(idx) ==
  /\ currentPage' = "theory1"
  /\ currentSubjectIndex' = idx + 1
  /\ currentTaskIndex' = 0
  /\ selectedAnswer' = NoAnswer

\* the advance ends on the completion page
C8_Completion ==
  /\ currentPage' = "completion"
  /\ UNCHANGED <<currentSubjectIndex, currentTaskIndex, selectedAnswer>>

\* how an advance pressed on the last explanation of subject idx ends
C8_LastTask(idx) ==
  IF idx < numSubjects - 1 THEN C8_NextSubject(idx) ELSE C8_Completion

\* the advance goes on awaiting the Reward Ledger: no transition yet
C8_Awaiting(n) == Len(pending') = n /\ UNCHANGED nav

\* C8: advance from explanation follows three cases: more tasks in the
\* subject -> task, task index + 1, answer cleared; otherwise more subjects
\* -> theory1, subject index + 1, task index 0, answer cleared; otherwise ->
\* completion.  The last two are made when the advance's Reward Ledger calls
\* have returned, for the subject the advance was pressed in.
C8_AdvanceFromExplanation ==
  [][ /\ (MainView /\ currentPage = "explanation" /\ Advance)
         => IF currentTaskIndex < TasksLength(currentSubject) - 1
            THEN /\ currentPage' = "task"
                 /\ currentTaskIndex' = currentTaskIndex + 1
                 /\ selectedAnswer' = NoAnswer
                 /\ UNCHANGED <<currentSubjectIndex, pending>>
            ELSE \/ C8_Awaiting(Len(pending) + 1)
                 \/ UNCHANGED pending /\ C8_LastTask(currentSubjectIndex)
      /\ \A j \in DOMAIN pending :
            ( /\ mounted /\ pending[j].op = "next" /\ pending' # pending
              /\ CASE pending[j].pc = "mark" -> MarkReturned(j)
                   [] pending[j].pc = "bonus" -> BonusReturned(j)
                   [] pending[j].pc = "allDone" -> AllDoneReturned(j)
                   [] OTHER -> ClaimedReturned(j) )
            => \/ C8_Awaiting(Len(pending))
               \/ Len(pending') = Len(pending) - 1 /\ C8_LastTask(pending[j].idx) ]_vars

\* a session of a two-task and a one-task subject went through the three
\* cases and is on the completion page
C8_Witness ==
  /\ mounted /\ username /\ currentPage = "completion"
  /\ numSubjects = 2 /\ currentSubjectIndex = 1
  /\ reminders[0] = 2 /\ reminders[1] = 1
  /\ subjectTotalQuestions[0] = 2 /\ subjectTotalQuestions[1] = 1
  /\ pending = <<>>

(* ---------------- C9 ---------------- *)
\* C9: advance from theory1 moves to theory2, advance from theory2 moves to
\* task with the task index 0 and the answer cleared; neither changes the
\* subject index, the counters or the coin total; advance in the task state
\* does nothing.
C9_AdvanceFromTheory ==
  [][ (currentPage \in {"theory1", "theory2", "task"} /\ Advance) =>
        /\ (MainView /\ currentPage = "theory1")
           => /\ currentPage' = "theory2"
              /\ UNCHANGED <<currentSubjectIndex, counters, totalCoinsEarned>>
        /\ (MainView /\ currentPage = "theory2")
           => /\ currentPage' = "task"
              /\ currentTaskIndex' = 0
              /\ selectedAnswer' = NoAnswer
              /\ UNCHANGED <<currentSubjectIndex, counters, totalCoinsEarned>>
        /\ currentPage = "task" => UNCHANGED vars ]_vars

\* the first task of the second subject, reached over its two theory pages
C9_Witness ==
  /\ MainView /\ currentPage = "task"
  /\ currentSubjectIndex = 1 /\ currentTaskIndex = 0 /\ selectedAnswer = NoAnswer
  /\ subjectTotalQuestions[1] = 0
  /\ pending = <<>>

(* ---------------- C10 ---------------- *)
\* C10: retreat moves from task with task index > 0 to the previous task's
\* explanation, from explanation to the task of the same index with the
\* answer cleared, from theory2 to theory1, from theory1 with subject index
\* > 0 to the previous subject's last explanation (its theory2 if it has no
\* tasks), and changes nothing in every other state.
C10_RetreatTable ==
  MainView =>
    CASE currentPage = "task" /\ currentTaskIndex > 0 ->
           /\ RetreatTarget[4] = "explanation"
           /\ RetreatTarget[2] = currentTaskIndex - 1
           /\ RetreatTarget[1] = currentSubjectIndex
      [] currentPage = "explanation" ->
           RetreatTarget = <<currentSubjectIndex, currentTaskIndex, NoAnswer, "task">>
      [] currentPage = "theory2" ->
           /\ RetreatTarget[4] = "theory1"
           /\ RetreatTarget[1] = currentSubjectIndex
      [] currentPage = "theory1" /\ currentSubjectIndex > 0 ->
           /\ RetreatTarget[1] = currentSubjectIndex - 1
           /\ IF TasksLength(currentSubjectIndex - 1) > 0
              THEN /\ RetreatTarget[4] = "explanation"
                   /\ RetreatTarget[2] = TasksLength(currentSubjectIndex - 1) - 1
              ELSE RetreatTarget[4] = "theory2"
      [] OTHER -> RetreatTarget = nav

(* ---------------- C11 ---------------- *)
\* C11: in every session, for each subject, the explanation page is visited
\* once for each of the subject's tasks and never again: a subject never has
\* more explanation visits than it has tasks, and it has exactly as many once
\* the session is at completion.
C11_OneVisitPerTask ==
  \A s \in SubjectIdx :
     HasReminder(s) =>
        /\ explanationVisits[s] <= TasksLength(s)
        /\ (mounted /\ currentPage = "completion")
              => explanationVisits[s] = TasksLength(s)

(* ---------------- C12 ---------------- *)
\* C12: markSubjectCompleted(user, subject) is invoked exactly once in a
\* session for each subject: never twice, and once by the time the session
\* of a named user is at completion.
C12_MarkedOncePerSubject ==
  \A s \in SubjectIdx :
     /\ markCalls[s] <= 1
     /\ (mounted /\ username /\ currentPage = "completion" /\ HasReminder(s))
           => markCalls[s] = 1

(* ---------------- C13 ---------------- *)
\* C13: canClaimCompletionBonus becomes true only on a step that puts the
\* screen on completion, and only when the Reward Ledger reports all daily
\* tasks completed for the number of resolved subjects and today's bonus not
\* yet claimed; the 100 coins are credited only by a step that ends a
\* claimBonus invocation, never by reaching completion.
C13_ClaimEligibility ==
  [][ /\ (canClaimCompletionBonus' /\ ~canClaimCompletionBonus)
         => /\ currentPage' = "completion"
            /\ areAllDailyTasksCompleted(numSubjects)
            /\ ~hasClaimedCompletionBonusToday
      /\ (totalCoinsEarned' >= totalCoinsEarned + CompletionBonus)
         => /\ NumPending("claim") > 0
            /\ \E i \in DOMAIN pending : pending[i].op = "claim" /\ pending' = Remove(i)
      /\ (currentPage' = "completion" /\ currentPage # "completion")
         => totalCoinsEarned' < totalCoinsEarned + CompletionBonus ]_vars

\* the session is at completion with the claim offered and nothing credited
\* for it: the 100 coins wait for the press
C13_Witness ==
  /\ mounted /\ currentPage = "completion"
  /\ canClaimCompletionBonus /\ ~hasClaimedBonus
  /\ ~ledgerClaimed /\ areAllDailyTasksCompleted(numSubjects)
  /\ totalCoinsEarned < CompletionBonus
  /\ NumPending("claim") = 0

(* ---------------- C14 ---------------- *)
\* every accumulator is empty or zero after the step
C14_Reset ==
  /\ totalCoinsEarned' = 0
  /\ correctAnswers' = 0
  /\ totalQuestions' = 0
  /\ subjectCorrectAnswers' = ZeroMap
  /\ subjectTotalQuestions' = ZeroMap
  /\ awardedQuestions' = {}
  /\ awardedBonuses' = {}
  /\ canClaimCompletionBonus' = FALSE

\* the step issues one more fetch, for the subject list the screen navigates
C14_FreshFetch ==
  /\ Len(fetching') = Len(fetching) + 1
  /\ fetching'[Len(fetching')] = subjectsToDisplay'
  /\ fetchedFor' = subjectsToDisplay'

\* C14 as stated: starting a new session (the session effect runs, at the
\* mount or for new props) resets every accumulator to empty or zero and
\* issues a fresh Content Provider fetch for the resolved subject set.
C14_SessionReset ==
  [][ sessions' # sessions => (C14_Reset /\ C14_FreshFetch) ]_vars

\* C14, amended: starting a new session resets every accumulator to empty or
\* zero; when the resolved subject set is not empty it issues a fresh fetch
\* for that set and the screen is loading, and when the set is empty it
\* issues no fetch and the screen is in the error state.
C14_SessionResetAmended ==
  [][ sessions' # sessions =>
        /\ C14_Reset
        /\ IF subjectsToDisplay' # <<>>
           THEN C14_FreshFetch /\ isLoading' /\ ~error'
           ELSE fetching' = fetching /\ fetchedFor' = fetchedFor /\ ~isLoading' /\ error' ]_vars

\* a second session was started on a screen that had answered three
\* questions, been granted a perfect-score bonus and claimed the completion
\* bonus: its accumulators are empty and its fetch is in flight
C14_Witness ==
  /\ mounted /\ sessions = 2
  /\ submitted = MaxAnswers
  /\ \E s \in Subjects : bonusCalls[s] = 1
  /\ claimSuccesses = 1
  /\ pending = <<>>
  /\ totalCoinsEarned = 0 /\ totalQuestions = 0 /\ awardedQuestions = {}
  /\ awardedBonuses = {} /\ ~hasClaimedBonus
  /\ isLoading /\ Len(fetching) = 1 /\ fetchedFor = subjectsToDisplay

(* ---------------- C15 ---------------- *)
\* subject s is the subject of some lesson
C15_Present(s) == \E i \in DOMAIN lessons : lessons[i] = s

\* the index of the first lesson of subject s
C15_First(s) == CHOOSE i \in DOMAIN lessons :
                   lessons[i] = s /\ \A j \in 1 .. (i - 1) : lessons[j] # s

\* list is the resolved list of the props
C15_Resolved(list) ==
  IF selectedSubjects # <<>>
  THEN \* the selected subjects that have a lesson, in selection order
       /\ \A i \in DOMAIN list : C15_Present(list[i])
       /\ \E pos \in [DOMAIN list -> DOMAIN selectedSubjects] :
             /\ \A i \in DOMAIN list : selectedSubjects[pos[i]] = list[i]
             /\ \A i, j \in DOMAIN list : i < j => pos[i] < pos[j]
             /\ \A k \in DOMAIN selectedSubjects :
                   C15_Present(selectedSubjects[k]) => \E i \in DOMAIN list : pos[i] = k
  ELSE \* the distinct subjects of the lessons, in first-occurrence order
       /\ \A i \in DOMAIN list : list[i] \in Subjects /\ C15_Present(list[i])
       /\ \A s \in Subjects : C15_Present(s) => \E i \in DOMAIN list : list[i] = s
       /\ \A i, j \in DOMAIN list : i < j => C15_First(list[i]) < C15_First(list[j])

\* C15: once the effect has run, the list the screen navigates is the resolved
\* list (the selected subjects that have a lesson, in selection order; with no
\* selection the distinct subjects of the lessons in first-occurrence order,
\* so lessons [A, B, A, C] give [A, B, C]), and the fetch was issued for the
\* same list.
C15_SubjectSetResolution ==
  sessions > 0 =>
     /\ C15_Resolved(subjectsToDisplay)
     /\ numSubjects = Len(subjectsToDisplay)
     /\ subjectsToDisplay # <<>> => fetchedFor = subjectsToDisplay
     /\ (lessons = <<0, 1, 0, 2>> /\ selectedSubjects = <<>>)
           => subjectsToDisplay = <<0, 1, 2>>

\* the fetch for lessons [A, B, A, C] and no selection is in flight for
\* [A, B, C]
C15_Witness ==
  /\ sessions = 1
  /\ lessons = <<0, 1, 0, 2>> /\ selectedSubjects = <<>>
  /\ fetching = << <<0, 1, 2>> >>

(* ---------------- C16 ---------------- *)
\* C16: when the fetch fails, or the resolved subject set is empty, the
\* session is in the error state with loading ended; in the error state no
\* theory or task page and none of its controls is shown and no fetch is in
\* flight; and the only step out of the error state is leaving the screen,
\* which issues no fetch.
C16_FetchFailure ==
  [][ /\ ( \/ \E i \in DOMAIN fetching : LoadFailed(i)
           \/ (Mount /\ numSubjects = 0) )
         => (error' /\ ~isLoading')
      /\ (mounted' /\ error')
         => /\ ~isLoading' /\ ~MainView'
            /\ ~OptionButtonsShown' /\ ~NextButtonShown'
            /\ ~BackButtonShown' /\ ~ClaimButtonShown'
            /\ fetching' = <<>>
      /\ (mounted /\ error)
         => /\ ~mounted'
            /\ sessions' = sessions /\ fetching' = fetching /\ fetchedFor' = fetchedFor
            /\ reminders' = reminders ]_vars

\* the fetch for a non-empty subject list has failed: the error screen
C16_Witness ==
  /\ mounted /\ error /\ ~isLoading
  /\ numSubjects > 0 /\ fetchedFor = subjectsToDisplay
  /\ fetching = <<>> /\ sessions = 1
  /\ \A s \in Subjects : reminders[s] = NoReminder

(* ---------------- C17 ---------------- *)
\* the advance with closure c goes on after the step: it is suspended at a
\* later ledger call
C17_Continues(c) ==
  \E k \in DOMAIN pending' :
     /\ pending'[k].op = "next" /\ pending'[k].idx = c.idx
     /\ PcRank(pending'[k].pc) > PcRank(c.pc)

\* the page transition of the advance with closure c is made by the step
C17_Transition(c) ==
  IF MoreSubjects(c.idx, c.len)
  THEN currentSubjectIndex' = c.idx + 1 /\ currentPage' = "theory1"
  ELSE currentPage' = "completion"

\* C17: when a ledger call made during advance fails (markSubjectCompleted,
\* the +20 addCoins, areAllDailyTasksCompleted, hasClaimedCompletionBonusToday)
\* the advance is not lost: on the step of the failure it either goes on to
\* its next ledger call or makes its page transition.
C17_LedgerFailureNotFatal ==
  [][ \A j \in DOMAIN pending :
         (mounted /\ pending[j].op = "next" /\ Rejected(j))
         => (C17_Continues(pending[j]) \/ C17_Transition(pending[j])) ]_vars

(* ---------------- C18 ---------------- *)
\* C18: when the addCoins call for an answered question fails, the failure
\* is swallowed: on the step of the failure the session coin total keeps the
\* optimistic coins, the question key stays in the awarded set and no second
\* call is made, and on a mounted screen the counters are incremented and the
\* page becomes explanation.
C18_AwardFailureSwallowed ==
  [][ \A j \in DOMAIN pending :
         (pending[j].op = "answer" /\ mounted /\ AnswerAwardReturned(j, TRUE))
         => /\ totalCoinsEarned' = totalCoinsEarned
            /\ totalCoinsEarned >= IncorrectCoins
            /\ awardedQuestions' = awardedQuestions
            /\ \E k \in awardedQuestions : k[1] = pending[j].subj /\ questionCalls[k] >= 1
            /\ questionCalls' = questionCalls
            /\ NumPending("answer")' = NumPending("answer") - 1
            /\ totalQuestions' = totalQuestions + 1
            /\ correctAnswers' = IF pending[j].ok THEN correctAnswers + 1 ELSE correctAnswers
            /\ subjectTotalQuestions'[pending[j].subj] = pending[j].vT[pending[j].subj] + 1
            /\ currentPage' = "explanation" ]_vars

\* the only answer of the screen had its addCoins call rejected: the coins
\* are in the session total, the key is awarded, the answer is counted and
\* the page is explanation
C18_Witness ==
  /\ mounted /\ awardFailed
  /\ submitted = 1 /\ pending = <<>>
  /\ totalCoinsEarned \in {CorrectCoins, IncorrectCoins}
  /\ Cardinality(awardedQuestions) = 1
  /\ totalQuestions = 1
  /\ currentPage = "explanation"

(* ---------------- C19 ---------------- *)
\* C19: after a successful fetch no page before completion is left without
\* an enabled forward action: on the main view of a page other than
\* completion the Next button is shown, or an option can be pressed, or an
\* answer is being awarded and will move the page to explanation.
C19_ForwardActionEnabled ==
  (MainView /\ currentPage # "completion")
     => \/ NextButtonShown
        \/ OptionButtonsEnabled
        \/ NumPending("answer") > 0

(* ---------------- C20 ---------------- *)
\* C20: completion is terminal: once the current page is completion, no step
\* of advance, retreat or submitAnswer (a press, or the continuation of an
\* earlier press) changes the page, the subject index, the task index, the
\* counters or the awarded sets of the mounted screen.
C20_CompletionTerminal ==
  [][ (mounted /\ mounted' /\ currentPage = "completion")
         => /\ currentPage' = "completion"
            /\ currentSubjectIndex' = currentSubjectIndex
            /\ currentTaskIndex' = currentTaskIndex
            /\ counters' = counters
            /\ awarded' = awarded ]_vars

\* the presses alone: advance, retreat and submitAnswer pressed on completion
\* change nothing
C20_PressesIgnored ==
  [][ ( /\ mounted /\ currentPage = "completion"
        /\ (Advance \/ Retreat \/ \E a \in 0 .. (NumOptions - 1) : SubmitAnswer(a)) )
         => UNCHANGED vars ]_vars

(* ---------------- C21 ---------------- *)
\* C21: the perfect-score bonus is possible only for a subject with exactly 3
\* tasks: a subject whose reminder has another number of tasks never has an
\* addCoins(+20) call issued for it, whatever was answered.
C21_BonusOnlyForThreeTasks ==
  \A s \in Subjects :
     (HasReminder(s) /\ reminders[s] # PerfectScoreTasks) => bonusCalls[s] = 0

\* a subject of fewer than 3 tasks was left with 3 answers counted for it, all
\* of them correct (a task was answered again after Back), and got no bonus
C21_Witness ==
  \E s \in Subjects :
     /\ HasReminder(s) /\ reminders[s] < PerfectScoreTasks
     /\ subjectTotalQuestions[s] = PerfectScoreTasks
     /\ subjectCorrectAnswers[s] = PerfectScoreTasks
     /\ username /\ C3_Left(s)
     /\ bonusCalls[s] = 0

(* ---------------- C22 ---------------- *)
\* the 3-correct-out-of-3 condition holds for subject s: in the counters of
\* the mounted screen once every submitted answer is counted, or as a
\* suspended advance will evaluate it when markSubjectCompleted returns
C22_ThreeOfThree(s) ==
  \/ /\ mounted /\ NumPending("answer") = 0
     /\ subjectTotalQuestions[s] = PerfectScoreTasks
     /\ subjectCorrectAnswers[s] = PerfectScoreTasks
  \/ \E j \in DOMAIN pending :
        /\ pending[j].op = "next" /\ pending[j].pc = "mark" /\ pending[j].subj = s
        /\ PerfectScore(pending[j])

RECURSIVE C23_Tasks(_)
C23_Tasks(S) ==
  IF S = {} THEN 0
  ELSE LET s == CHOOSE x \in S : TRUE IN TasksLength(s) + C23_Tasks(S \ {s})

\* C23: in every state of a session the total-questions counter is at most
\* the number of tasks of the session's subjects and each subject's total
\* counter is at most the subject's number of tasks: a task is counted at most
\* once, also when it is answered again after Back.
C23_CountedAtMostOnce ==
  mounted =>
     /\ totalQuestions <= C23_Tasks(Subjects)
     /\ \A s \in Subjects : subjectTotalQuestions[s] <= TasksLength(s)

(* ---------------- C24 ---------------- *)
\* C24: in every state of the mounted screen the session coin total is
\* 10 x (awarded question keys answered correctly) + 5 x (awarded question
\* keys answered incorrectly) + 20 x (perfect-score bonuses whose addCoins
\* call returned) + 100 if the completion bonus was claimed successfully.
C24_CoinTotal ==
  mounted =>
     totalCoinsEarned =
        CorrectCoins * Cardinality(awardedQuestions \cap correctKeys)
        + IncorrectCoins * Cardinality(awardedQuestions \ correctKeys)
        + PerfectScoreBonus * bonusReturned
        + (IF claimSuccesses >= 1 THEN CompletionBonus ELSE 0)

\* three correct answers, the perfect-score bonus and the completion bonus:
\* 30 + 20 + 100 coins
C24_Witness ==
  /\ mounted /\ currentPage = "completion"
  /\ Cardinality(awardedQuestions) = 3 /\ awardedQuestions \subseteq correctKeys
  /\ bonusReturned = 1
  /\ claimSuccesses = 1 /\ hasClaimedBonus
  /\ totalCoinsEarned = 150

(* ---------------- C25 ---------------- *)
\* C25: whenever the current page is explanation an answer is recorded for
\* the current task (the selected answer is not absent), in every state
\* reachable by submitAnswer, advance and retreat.
C25_ExplanationHasAnswer ==
  (mounted /\ currentPage = "explanation") => selectedAnswer # NoAnswer

(* ---------------- C26 ---------------- *)
\* C26: in every state after a successful fetch the subject index is within
\* the resolved subject list, and whenever the page is task or explanation
\* the task index refers to an existing task of the current subject, for
\* every number of tasks of a subject, zero included.
C26_IndicesInRange ==
  (mounted /\ sessions > 0 /\ ~isLoading /\ ~error) =>
     /\ currentSubjectIndex \in 0 .. (numSubjects - 1)
     /\ (currentPage \in {"task", "explanation"} /\ HasReminder(currentSubject))
           => currentTaskIndex \in 0 .. (TasksLength(currentSubject) - 1)

\* the same for subjects that have a task: this part holds
C26_InRangeWithTasks ==
  (mounted /\ sessions > 0 /\ ~isLoading /\ ~error) =>
     /\ currentSubjectIndex \in 0 .. (numSubjects - 1)
     /\ (currentPage \in {"task", "explanation"} /\ TasksLength(currentSubject) > 0)
           => currentTaskIndex \in 0 .. (TasksLength(currentSubject) - 1)

(* ---------------- C27 ---------------- *)
\* C27: a reset for a new combination of subject list and lesson list (a run
\* of the session effect) puts the session at the first subject's theory1
\* page with task index 0 and no recorded answer, so that the subject index
\* is within the newly resolved subject list.
C27_ResetNavigation ==
  [][ sessions' # sessions =>
        /\ currentSubjectIndex' = 0
        /\ currentTaskIndex' = 0
        /\ selectedAnswer' = NoAnswer
        /\ currentPage' = "theory1"
        /\ numSubjects' > 0 => currentSubjectIndex' < numSubjects' ]_vars

(* ---------------- C28 ---------------- *)
\* C28: in a session with no user name no Reward Ledger call is made (no
\* addCoins, no markSubjectCompleted, no eligibility query, no claim: no
\* invocation is ever suspended at the ledger and the ledger does not change),
\* the session coin total stays 0 and the completion bonus never becomes
\* claimable, while the pages and the answer counters move as they do with a
\* user name: an answer is recorded, counted and followed by the explanation,
\* and advance makes the transitions of C8 and C9, all on the press.
C28_NoUserName ==
  [][ ~username =>
        /\ pending' = <<>>
        /\ calls' = calls /\ markCalls' = markCalls
        /\ ledgerCompleted' = ledgerCompleted /\ ledgerClaimed' = ledgerClaimed
        /\ claimSuccesses' = claimSuccesses
        /\ totalCoinsEarned' = 0 /\ awardedQuestions' = {} /\ awardedBonuses' = {}
        /\ ~canClaimCompletionBonus' /\ ~ClaimButtonShown'
        /\ \A i \in 0 .. (NumOptions - 1) :
              (C5_TaskState /\ SubmitAnswer(i))
              => /\ selectedAnswer' = i
                 /\ C5_Tracked(currentSubject,
                               i = correctAnswer(currentSubject, currentTaskIndex),
                               subjectTotalQuestions[currentSubject],
                               subjectCorrectAnswers[currentSubject])
        /\ (MainView /\ currentPage = "theory1" /\ Advance)
              => currentPage' = "theory2" /\ UNCHANGED <<currentSubjectIndex, counters>>
        /\ (MainView /\ currentPage = "theory2" /\ Advance)
              => /\ currentPage' = "task" /\ currentTaskIndex' = 0
                 /\ selectedAnswer' = NoAnswer
                 /\ UNCHANGED <<currentSubjectIndex, counters>>
        /\ (MainView /\ currentPage = "explanation" /\ Advance)
              => /\ IF currentTaskIndex < TasksLength(currentSubject) - 1
                    THEN /\ currentPage' = "task"
                         /\ currentTaskIndex' = currentTaskIndex + 1
                         /\ selectedAnswer' = NoAnswer
                         /\ UNCHANGED currentSubjectIndex
                    ELSE C8_LastTask(currentSubjectIndex)
                 /\ UNCHANGED counters ]_vars

\* a session without a user name went through two subjects and three answers
\* to the completion page: no coins, no ledger call, no claim
C28_Witness ==
  /\ ~username /\ mounted /\ currentPage = "completion"
  /\ numSubjects = 2 /\ currentSubjectIndex = 1
  /\ totalQuestions = 3
  /\ totalCoinsEarned = 0 /\ pending = <<>> /\ ledgerCompleted = {}
  /\ ~canClaimCompletionBonus

(* ---------------- C29 ---------------- *)
\* C29: in the App shell, whenever the user is authenticated and no reminder,
\* roadmap or profile overlay is shown, the current screen is daily or
\* courses, so that a main screen and the bottom navigation bar are
\* displayed, after any sequence of login, logout, opening and closing the
\* profile, opening and closing a roadmap, and tab presses.
C29_MainScreenShown ==
  AppView = "main" => (HomePageShown \/ CoursesScreenShown) /\ BottomNavShown

(* ---------------- C30 ---------------- *)
\* the purchaseCourse calls of the mounted courses screen that are pending
\* for course c
C30_PendingPurchases(c) ==
  {j \in DOMAIN shopPending :
     /\ shopPending[j].live
     /\ shopPending[j].pc = "purchaseCourse"
     /\ shopPending[j].course = c}

\* C30: on the courses screen at most one purchaseCourse call is pending per
\* course: the purchase action of a course is not accepted while a purchase of
\* that same course is pending, even when a purchase of another course starts
\* or finishes in between.
C30_OnePurchasePerCourse ==
  \A c \in Courses : Cardinality(C30_PendingPurchases(c)) <= 1

====
